---- MODULE Spec2Model ----
(***************************************************************************)
(* Model of textual_fspicker's DirectoryNavigation and DriveNavigation     *)
(* widgets (src/textual_fspicker/parts).                                   *)
(*                                                                         *)
(* One UI thread runs the handlers (the location setter, on_mount, the     *)
(* reactive watchers, the option-selected handler, the callbacks handed    *)
(* over by call_from_thread).  Every call of _load creates a thread        *)
(* worker; @work(exclusive=True) cancels the older workers, which only     *)
(* raises their is_cancelled flag: a cancelled thread keeps running until  *)
(* it reads the flag itself.  Worker steps interleave freely with the UI   *)
(* thread and with each other.                                             *)
(***************************************************************************)
EXTENDS Integers, Sequences, FiniteSets, TLC

VARIABLES
    _mounted,           \* self._mounted
    _initial_location,  \* self._initial_location
    _location,          \* the reactive var _location
    show_hidden,        \* the reactive var show_hidden
    sort_display,       \* the reactive var sort_display
    initialized,        \* the init=True reactives have run their watchers
    _entries,           \* self._entries, the entry cache
    options,            \* the OptionList's rows (the displayed list)
    highlighted,        \* OptionList.highlighted
    workers,            \* the _load workers, by creation order
    changed,            \* number of Changed messages posted
    lastScanned,        \* location of the last scan that ran to its hand-off
    platform,           \* what os.listdrives does for the drive widget
    drive_mounted,      \* DriveNavigation.on_mount has run
    drive_raised,       \* DriveNavigation.on_mount raised
    drive_options,      \* DriveNavigation's rows
    drive_messages      \* DriveSelected messages posted

navVars == <<_mounted, _initial_location, _location, show_hidden, sort_display,
             initialized, _entries, options, highlighted, workers, changed,
             lastScanned>>

driveVars == <<platform, drive_mounted, drive_raised, drive_options,
               drive_messages>>

vars == <<navVars, driveVars>>

\* None as the value of OptionList.highlighted, whose other values are row
\* indices from 0.
None == -1

\* No location yet: a path no directory has.
Nowhere == << << >> >>

(***************************************************************************)
(* Bounds.                                                                 *)
(***************************************************************************)
\* Number of _load workers (scans) a behaviour may start.
MaxScans == 2

\* Number of DriveSelected messages a behaviour may post.
MaxDriveMessages == 2

(***************************************************************************)
(* The filesystem the widget looks at.  A name is a sequence of            *)
(* characters, a path the sequence of its names below the root.            *)
(***************************************************************************)
DotDot == <<".", ".">>
nZ == <<"Z">>
nB == <<"b">>
nM == <<"m">>
nS == <<"s">>
nG == <<".", "g">>

Root == << >>
DirA == <<nZ>>
DirB == <<nB>>
Missing == <<nM>>

\* The directories that exist: /, /Z, /Z/s, /Z/.g, /b, /b/s.
Dirs == {Root, DirA, DirB, <<nZ, nS>>, <<nZ, nG>>, <<nB, nS>>}

\* The plain files that exist: /b/.g.
Files == {<<nB, nG>>}

\* The children of a directory in the order the filesystem yields them.
Children(dir) ==
    CASE dir = Root -> <<nB, nZ>>
      [] dir = DirA -> <<nS, nG>>
      [] dir = DirB -> <<nS, nG>>
      [] OTHER -> << >>

IsDir(path) == path \in Dirs

Parent(path) == IF path = Root THEN Root ELSE SubSeq(path, 1, Len(path) - 1)

\* Path.resolve(): with no symbolic links in the tree it folds "." and ".."
\* away, name by name; ".." at the root stays at the root.
RECURSIVE ResolveFrom(_, _)
ResolveFrom(done, rest) ==
    IF rest = << >> THEN done
    ELSE IF Head(rest) = DotDot THEN ResolveFrom(Parent(done), Tail(rest))
    ELSE IF Head(rest) = <<".">> THEN ResolveFrom(done, Tail(rest))
    ELSE ResolveFrom(Append(done, Head(rest)), Tail(rest))

Resolve(path) == ResolveFrom(Root, path)

\* Path.stat() succeeds: the walk of the unresolved path, name by name, stays
\* inside existing directories and ends on an existing file or directory.
RECURSIVE WalkFrom(_, _)
WalkFrom(at, rest) ==
    IF rest = << >> THEN at \in Dirs \cup Files
    ELSE /\ at \in Dirs
         /\ WalkFrom(IF Head(rest) = DotDot THEN Parent(at)
                     ELSE Append(at, Head(rest)), Tail(rest))

Exists(path) == WalkFrom(Root, path)

\* Path.name: the last name of the path as written, "" for the root.
Name(path) == IF path = << >> THEN << >> ELSE path[Len(path)]

(***************************************************************************)
(* DirectoryEntry                                                          *)
(***************************************************************************)
\* DirectoryEntry( location ) raises when location.stat() does (_mtime).
CanBuildEntry(location) == Exists(location)

\* Existing paths whose stat() the filesystem may refuse at any one call (an
\* I/O or permission error, an entry removed and put back between is_dir()
\* and stat()): /Z/.g.
Flaky == {<<nZ, nG>>}

\* The outcomes of DirectoryEntry( location ): TRUE for an entry built, FALSE
\* for location.stat() raising in _mtime.
BuildOutcomes(location) ==
    IF ~CanBuildEntry(location) THEN {FALSE}
    ELSE IF Resolve(location) \in Flaky THEN {TRUE, FALSE}
    ELSE {TRUE}

\* DirectoryEntry( location ): the resolved location, and the prompt's name
\* column, which is the name of the location as it was passed in.
DirectoryEntry(location) ==
    [location |-> Resolve(location), label |-> Name(location)]

(***************************************************************************)
(* The display projection                                                  *)
(***************************************************************************)
\* is_root with the comparison lost: no location counts as the root.
is_root_never(loc) == FALSE

is_root(loc) == loc = Root

is_hidden(path) == Name(path) /= << >> /\ Name(path)[1] = "."

\* hide without the flag: show_hidden is not consulted.
hide_always(path, showHidden) == is_hidden(path)

hide(path, showHidden) == is_hidden(path) /\ ~showHidden

\* Code points of the characters the names use.
Ord(c) ==
    CASE c = "." -> 46
      [] c = "Z" -> 90
      [] c = "b" -> 98
      [] c = "g" -> 103
      [] c = "m" -> 109
      [] c = "s" -> 115
      [] c = "z" -> 122

\* Python's str order: by code point, a proper prefix first.
RECURSIVE StrLess(_, _)
StrLess(x, y) ==
    IF y = << >> THEN FALSE
    ELSE IF x = << >> THEN TRUE
    ELSE IF Ord(Head(x)) /= Ord(Head(y)) THEN Ord(Head(x)) < Ord(Head(y))
    ELSE StrLess(Tail(x), Tail(y))

\* The sort key of _sort: entry.location.name.
SortKey(entry) == Name(entry.location)

\* str.lower() of a name.
Lower(name) == [i \in DOMAIN name |-> IF name[i] = "Z" THEN "z" ELSE name[i]]

\* KeyLess on lowered keys: the names are compared without regard to case.
KeyLessIgnoringCase(x, y) == StrLess(Lower(SortKey(x)), Lower(SortKey(y)))

KeyLess(x, y) == StrLess(SortKey(x), SortKey(y))

\* One insertion of sorted(): after every row whose key is not greater, so
\* that rows with equal keys keep their order (sorted() is stable).
RECURSIVE InsertSorted(_, _)
InsertSorted(entry, sortedRows) ==
    IF sortedRows = << >> THEN <<entry>>
    ELSE IF KeyLess(entry, Head(sortedRows)) THEN <<entry>> \o sortedRows
    ELSE <<Head(sortedRows)>> \o InsertSorted(entry, Tail(sortedRows))

RECURSIVE Sorted(_)
Sorted(entries) ==
    IF entries = << >> THEN << >>
    ELSE InsertSorted(entries[Len(entries)],
                      Sorted(SubSeq(entries, 1, Len(entries) - 1)))

_sort(entries, sortDisplay) == IF sortDisplay THEN Sorted(entries) ELSE entries

Visible(entries, showHidden) ==
    SelectSeq(entries, LAMBDA entry: ~hide(entry.location, showHidden))

\* The parent row of _repopulate_display.
ParentRows(loc) ==
    IF is_root(loc) THEN << >> ELSE <<DirectoryEntry(Append(loc, DotDot))>>

\* The rows _repopulate_display adds after clear_options().
Rows(entries, loc, showHidden, sortDisplay) ==
    ParentRows(loc) \o _sort(Visible(entries, showHidden), sortDisplay)

\* _repopulate_display runs through: the parent row, when one is wanted, can
\* be built.
CanRepopulate(loc) == is_root(loc) \/ CanBuildEntry(Append(loc, DotDot))

\* _settle_highlight without its assignment: the highlight is left as it is.
_settle_nothing(h) == h

\* _settle_highlight.
_settle_highlight(h) == IF h = None THEN 0 ELSE h

(***************************************************************************)
(* Workers                                                                 *)
(***************************************************************************)
\* pc of a worker: the next thing its thread does.
\*   "start"    created by _load(), line 191 not yet run
\*   "iterdir"  about to evaluate self._location.iterdir()
\*   "body"     about to run lines 197-198 for the first child of todo
\*   "check"    about to read worker.is_cancelled for that child
\*   "handoff"  inside call_from_thread, waiting for the UI thread
\*   "done", "returned", "failed", "never_ran"   stopped
Stopped == {"done", "returned", "failed", "never_ran"}

NewWorker == [pc |-> "start", cancelled |-> FALSE, dir |-> Root, todo |-> << >>]

\* CancelWorkers as a plain @work would have it: nothing is cancelled.
CancelNothing(ws) == ws

\* exclusive=True: every worker of the widget that has not finished yet is
\* cancelled before the new one is started.
CancelWorkers(ws) ==
    [i \in DOMAIN ws |->
        IF ws[i].pc \in Stopped THEN ws[i] ELSE [ws[i] EXCEPT !.cancelled = TRUE]]

\* _load(): the call of the @work(exclusive=True) method, on the UI thread.
_load(ws) == Append(CancelWorkers(ws), NewWorker)

\* ReactiveChanged of a reactive declared with always_update=True.
ReactiveAlways(old, new) == TRUE

\* A reactive without always_update runs its watcher only for a new value.
ReactiveChanged(old, new) == old /= new

\* The rows and the highlight after _repopulate_display().
Repopulated(entries, loc, showHidden, sortDisplay) ==
    IF CanRepopulate(loc)
    THEN [options |-> Rows(entries, loc, showHidden, sortDisplay),
          highlighted |-> _settle_highlight(None)]
    ELSE [options |-> << >>, highlighted |-> None]

(***************************************************************************)
(* Initial state: the widgets have been constructed, nothing is mounted.   *)
(***************************************************************************)
\* The process's working directory, the default of the _location var.
Cwd == Root

\* Locations handed to the constructor and to the location setter.
SetterInputs == {DirA, DirB, Missing, <<nZ, DotDot>>}

\* What os.listdrives() does: return a list of drives, raise OSError, or not
\* exist at all (AttributeError off Windows).
DriveLetters == {"C", "D", "E"}

DriveLists ==
    {d \in UNION {[1 .. n -> DriveLetters] : n \in 0 .. Cardinality(DriveLetters)} :
        \A i, j \in DOMAIN d : i /= j => d[i] /= d[j]}

Platforms ==
    {[listdrives |-> "ok", drives |-> d] : d \in DriveLists}
    \cup {[listdrives |-> e, drives |-> << >>] : e \in {"OSError", "AttributeError"}}

\* DirectoryNavigation( location ) has returned.
InitNavigation(location) ==
    /\ _mounted = FALSE
    /\ _initial_location = Resolve(location)
    /\ _location = Cwd
    /\ show_hidden = FALSE
    /\ sort_display = TRUE
    /\ initialized = FALSE
    /\ _entries = << >>
    /\ options = << >>
    /\ highlighted = None
    /\ workers = << >>
    /\ changed = 0
    /\ lastScanned = Nowhere

\* DriveNavigation() has returned, on the given platform.
InitDrive(os) ==
    /\ platform = os
    /\ drive_mounted = FALSE
    /\ drive_raised = FALSE
    /\ drive_options = << >>
    /\ drive_messages = << >>

Init ==
    /\ \E location \in SetterInputs : InitNavigation(location)
    /\ InitDrive([listdrives |-> "AttributeError", drives |-> << >>])

(***************************************************************************)
(* UI-thread handlers of DirectoryNavigation                               *)
(***************************************************************************)
\* self._location = new: the reactive's set, then _watch__location when the
\* value is new (post the Changed message, call _load).
AssignLocation(new) ==
    IF ReactiveChanged(_location, new)
    THEN /\ Len(workers) < MaxScans
         /\ _location' = new
         /\ changed' = changed + 1
         /\ workers' = _load(workers)
    ELSE UNCHANGED <<_location, changed, workers>>

\* The location setter.
SetLocation(path) ==
    /\ IF _mounted
       THEN /\ AssignLocation(Resolve(path))
            /\ UNCHANGED _initial_location
       ELSE /\ _initial_location' = Resolve(path)
            /\ UNCHANGED <<_location, changed, workers>>
    /\ UNCHANGED <<_mounted, show_hidden, sort_display, initialized, _entries,
                   options, highlighted, lastScanned, driveVars>>

on_mount ==
    /\ ~_mounted
    /\ _mounted' = TRUE
    /\ AssignLocation(_initial_location)
    /\ UNCHANGED <<_initial_location, show_hidden, sort_display, initialized,
                   _entries, options, highlighted, lastScanned, driveVars>>

\* _repopulate_display() on the UI thread, under the given flags.
_repopulate_display(showHidden, sortDisplay) ==
    LET r == Repopulated(_entries, _location, showHidden, sortDisplay)
    IN  /\ options' = r.options
        /\ highlighted' = r.highlighted

\* After mount the reactives declared with init=True (show_hidden,
\* sort_display) run their watchers once; both call _repopulate_display.
InitReactives ==
    /\ _mounted /\ ~initialized
    /\ initialized' = TRUE
    /\ _repopulate_display(show_hidden, sort_display)
    /\ UNCHANGED <<_mounted, _initial_location, _location, show_hidden,
                   sort_display, _entries, workers, changed, lastScanned,
                   driveVars>>

\* toggle_hidden with a watcher that reloads the directory, as the docstring
\* of _watch_show_hidden has it, instead of re-projecting the cache.
toggle_hidden_reloading ==
    /\ initialized
    /\ Len(workers) < MaxScans
    /\ show_hidden' = ~show_hidden
    /\ workers' = _load(workers)
    /\ UNCHANGED <<_mounted, _initial_location, _location, sort_display,
                   initialized, _entries, options, highlighted, changed,
                   lastScanned, driveVars>>

\* toggle_hidden, and through it _watch_show_hidden.
toggle_hidden ==
    /\ initialized
    /\ show_hidden' = ~show_hidden
    /\ _repopulate_display(show_hidden', sort_display)
    /\ UNCHANGED <<_mounted, _initial_location, _location, sort_display,
                   initialized, _entries, workers, changed, lastScanned,
                   driveVars>>

\* An assignment to sort_display, and through it _watch_sort_display.
SetSortDisplay(value) ==
    /\ initialized
    /\ sort_display' = value
    /\ IF ReactiveChanged(sort_display, value)
       THEN _repopulate_display(show_hidden, value)
       ELSE UNCHANGED <<options, highlighted>>
    /\ UNCHANGED <<_mounted, _initial_location, _location, show_hidden,
                   initialized, _entries, workers, changed, lastScanned,
                   driveVars>>

\* OptionSelected taking the highlighted row for the selected one.
OptionSelectedHighlighted(i) ==
    /\ initialized
    /\ i \in 0 .. Len(options) - 1
    /\ AssignLocation(options[highlighted + 1].location)
    /\ UNCHANGED <<_mounted, _initial_location, show_hidden, sort_display,
                   initialized, _entries, options, highlighted, lastScanned,
                   driveVars>>

\* _on_option_list_option_selected for the row at index i (from 0).
OptionSelected(i) ==
    /\ initialized
    /\ i \in 0 .. Len(options) - 1
    /\ AssignLocation(options[i + 1].location)
    /\ UNCHANGED <<_mounted, _initial_location, show_hidden, sort_display,
                   initialized, _entries, options, highlighted, lastScanned,
                   driveVars>>

(***************************************************************************)
(* The thread of worker w running _load                                    *)
(***************************************************************************)
NavFrame == <<_mounted, _initial_location, _location, show_hidden,
              sort_display, initialized, changed>>

\* A worker whose thread has ended, with the given outcome; its loop state
\* is gone with the thread.
Ended(worker, outcome) ==
    [pc |-> outcome, cancelled |-> worker.cancelled, dir |-> Root, todo |-> << >>]

\* A worker cancelled before its thread ran the function may never run it.
WorkerNeverRuns(w) ==
    /\ workers[w].pc = "start"
    /\ workers[w].cancelled
    /\ workers' = [workers EXCEPT ![w] = Ended(@, "never_ran")]
    /\ UNCHANGED <<NavFrame, _entries, options, highlighted,
                   lastScanned, driveVars>>

\* Line 191: self._entries = [].  The flag is not read before it.
WorkerClear(w) ==
    /\ workers[w].pc = "start"
    /\ _entries' = << >>
    /\ workers' = [workers EXCEPT ![w].pc = "iterdir"]
    /\ UNCHANGED <<NavFrame, options, highlighted, lastScanned,
                   driveVars>>

\* The pc after the loop has taken the children in todo.
LoopOrHandoff(todo) == IF todo = << >> THEN "handoff" ELSE "body"

\* WorkerIterdir with a retry: a failed enumeration calls _load() again.
WorkerIterdirRetrying(w) ==
    /\ workers[w].pc = "iterdir"
    /\ IF IsDir(_location)
       THEN /\ workers' = [workers EXCEPT
                   ![w].dir = _location,
                   ![w].todo = Children(_location),
                   ![w].pc = LoopOrHandoff(Children(_location))]
            /\ lastScanned' = IF Children(_location) = << >>
                              THEN _location ELSE lastScanned
       ELSE /\ workers' =
                   IF Len(workers) < MaxScans
                   THEN _load([workers EXCEPT ![w] = Ended(@, "failed")])
                   ELSE [workers EXCEPT ![w] = Ended(@, "failed")]
            /\ UNCHANGED lastScanned
    /\ UNCHANGED <<NavFrame, _entries, options, highlighted,
                   driveVars>>

\* Line 196: self._location.iterdir(), of the location as it is now.  It
\* raises when that is no directory; the worker ends in error.
WorkerIterdir(w) ==
    /\ workers[w].pc = "iterdir"
    /\ IF IsDir(_location)
       THEN /\ workers' = [workers EXCEPT
                   ![w].dir = _location,
                   ![w].todo = Children(_location),
                   ![w].pc = LoopOrHandoff(Children(_location))]
            /\ lastScanned' = IF Children(_location) = << >>
                              THEN _location ELSE lastScanned
       ELSE /\ workers' = [workers EXCEPT ![w] = Ended(@, "failed")]
            /\ UNCHANGED lastScanned
    /\ UNCHANGED <<NavFrame, _entries, options, highlighted,
                   driveVars>>

\* Lines 197-198 for one child: entry.is_dir() of the child that iterdir
\* yielded, then the append, to the list self._entries names now, of an
\* entry built from the location self._location holds now.  No exception is
\* caught: when the entry cannot be built the worker ends in error.
WorkerBody(w) ==
    /\ workers[w].pc = "body"
    /\ LET name == Head(workers[w].todo)
           child == Append(workers[w].dir, name)
           built == Append(_location, name)
       IN  IF ~IsDir(child)
           THEN /\ workers' = [workers EXCEPT ![w].pc = "check"]
                /\ UNCHANGED _entries
           ELSE \E isBuilt \in BuildOutcomes(built) :
                   IF isBuilt
                   THEN /\ _entries' = Append(_entries, DirectoryEntry(built))
                        /\ workers' = [workers EXCEPT ![w].pc = "check"]
                   ELSE /\ workers' = [workers EXCEPT ![w] = Ended(@, "failed")]
                        /\ UNCHANGED _entries
    /\ UNCHANGED <<NavFrame, options, highlighted, lastScanned,
                   driveVars>>

\* Lines 199-200, then the loop's next step.
WorkerCheck(w) ==
    /\ workers[w].pc = "check"
    /\ IF workers[w].cancelled
       THEN /\ workers' = [workers EXCEPT ![w] = Ended(@, "returned")]
            /\ UNCHANGED lastScanned
       ELSE /\ workers' = [workers EXCEPT
                   ![w].todo = Tail(@),
                   ![w].pc = LoopOrHandoff(Tail(workers[w].todo))]
            /\ lastScanned' = IF Tail(workers[w].todo) = << >>
                              THEN workers[w].dir ELSE lastScanned
    /\ UNCHANGED <<NavFrame, _entries, options, highlighted,
                   driveVars>>

\* Line 204: the UI thread runs the callback the worker handed over,
\* _repopulate_display, and the worker returns; what the callback raises,
\* call_from_thread raises in the worker, which ends in error.
CallFromThread(w) ==
    /\ workers[w].pc = "handoff"
    /\ _repopulate_display(show_hidden, sort_display)
    /\ workers' = [workers EXCEPT ![w] =
           Ended(@, IF CanRepopulate(_location) THEN "done" ELSE "failed")]
    /\ UNCHANGED <<NavFrame, _entries, lastScanned, driveVars>>

(***************************************************************************)
(* DriveNavigation                                                         *)
(***************************************************************************)
\* os.listdrives() raises.
listdrives_raises(os) == os.listdrives /= "ok"

\* on_mount: self.add_options( os.listdrives() ).
drive_on_mount ==
    /\ ~drive_mounted
    /\ drive_mounted' = TRUE
    /\ IF listdrives_raises(platform)
       THEN /\ drive_raised' = TRUE
            /\ UNCHANGED drive_options
       ELSE /\ drive_options' = platform.drives
            /\ UNCHANGED drive_raised
    /\ UNCHANGED <<platform, drive_messages, navVars>>

\* select_drive: post DriveSelected with the row's prompt.
select_drive(i) ==
    /\ i \in 1 .. Len(drive_options)
    /\ Len(drive_messages) < MaxDriveMessages
    /\ drive_messages' = Append(drive_messages, drive_options[i])
    /\ UNCHANGED <<platform, drive_mounted, drive_raised, drive_options,
                   navVars>>

(***************************************************************************)
(* Specifications                                                          *)
(***************************************************************************)
\* The directory navigation widget, its workers and the UI thread.
Next ==
    \/ \E path \in SetterInputs : SetLocation(path)
    \/ on_mount
    \/ InitReactives
    \/ toggle_hidden
    \/ \E value \in BOOLEAN : SetSortDisplay(value)
    \/ \E i \in 0 .. Len(options) - 1 : OptionSelected(i)
    \/ \E w \in DOMAIN workers : WorkerNeverRuns(w)
    \/ \E w \in DOMAIN workers : WorkerClear(w)
    \/ \E w \in DOMAIN workers : WorkerIterdir(w)
    \/ \E w \in DOMAIN workers : WorkerBody(w)
    \/ \E w \in DOMAIN workers : WorkerCheck(w)
    \/ \E w \in DOMAIN workers : CallFromThread(w)

Spec == Init /\ [][Next]_vars

\* The drive widget on every platform; the navigation widget stays as built.
DriveInit ==
    /\ InitNavigation(Cwd)
    /\ \E os \in Platforms : InitDrive(os)

DriveNext ==
    \/ drive_on_mount
    \/ \E i \in 1 .. Len(drive_options) : select_drive(i)

DriveSpec == DriveInit /\ [][DriveNext]_vars

\* The steps of worker w's thread, the callback it hands to the UI thread
\* included.
WorkerStep(w) ==
    /\ w \in DOMAIN workers
    /\ \/ WorkerNeverRuns(w)
       \/ WorkerClear(w)
       \/ WorkerIterdir(w)
       \/ WorkerBody(w)
       \/ WorkerCheck(w)
       \/ CallFromThread(w)

\* Scheduling: a worker's thread that can take a step is not held back for
\* ever, and the UI thread's event loop comes to run a callback handed to it.
\* The user's own steps (setter, flags, selection) are under no obligation.
Fairness == \A w \in 1 .. MaxScans : WF_vars(WorkerStep(w))

FairSpec == Spec /\ Fairness

(***************************************************************************)
(* What the claims speak of                                                *)
(***************************************************************************)
\* The listing a scan of loc is to produce: one entry for every child of loc
\* that is a directory, in the order the filesystem yields them.
Subdirectories(loc) ==
    SelectSeq(Children(loc), LAMBDA name: Append(loc, name) \in Dirs)

SubdirectoryListing(loc) ==
    [i \in 1 .. Len(Subdirectories(loc)) |->
        [location |-> Append(loc, Subdirectories(loc)[i]),
         label |-> Subdirectories(loc)[i]]]

\* The listing of the last location whose scan ran to its end, empty before
\* the first.
LastListing ==
    IF lastScanned = Nowhere THEN << >> ELSE SubdirectoryListing(lastScanned)

\* The rows of the displayed list other than the synthetic parent row.
RealRows(rows) == SelectSeq(rows, LAMBDA row: row.label /= DotDot)

\* The name of an entry starts with ".".
DotName(entry) ==
    /\ entry.location /= << >>
    /\ entry.location[Len(entry.location)][1] = "."

\* How often a row occurs in a list of rows.
Count(rows, row) == Cardinality({i \in DOMAIN rows : rows[i] = row})

AllStopped == \A w \in DOMAIN workers : workers[w].pc \in Stopped

\* C1. Cancellation correctness: when the scan of A was still running at the
\* setLocation(B) that cancelled it, then once every worker has stopped, B's
\* scan having run to its end, the entry cache is exactly the listing of
\* B's subdirectories.
C1_CancelledScanLeavesNoTrace ==
    ( /\ Len(workers) >= 2
      /\ workers[Len(workers) - 1].cancelled
      /\ workers[Len(workers)].pc = "done"
      /\ AllStopped )
    => _entries = SubdirectoryListing(_location)

\* C4. A scan whose enumeration failed, after scans that all ran undisturbed
\* to their end: the location is still the requested one, the entry cache
\* still is the listing of the last location scanned successfully, and the
\* displayed list still shows that listing (under the hidden-entry flag).
C4_FailedScanLeavesStateIntact ==
    ( /\ workers /= << >>
      /\ workers[Len(workers)].pc = "failed"
      /\ ~IsDir(_location)
      /\ \A w \in 1 .. Len(workers) - 1 :
              workers[w].pc = "done" /\ ~workers[w].cancelled )
    => /\ _entries = LastListing
       /\ \A i \in DOMAIN LastListing :
              Count(RealRows(options), LastListing[i]) =
                  IF DotName(LastListing[i]) /\ ~show_hidden THEN 0 ELSE 1

\* C5. Single active scan: at most one worker is running and not cancelled,
\* and every worker older than the newest has stopped or been cancelled, so
\* that the newest never runs beside an older worker still entitled to run.
C5_SingleActiveScan ==
    /\ Cardinality({w \in DOMAIN workers :
            workers[w].pc \notin Stopped /\ ~workers[w].cancelled}) <= 1
    /\ \A w \in DOMAIN workers :
            w < Len(workers) =>
                workers[w].pc \in Stopped \/ workers[w].cancelled

\* C5's case: the cancelled scan and its successor are both inside their
\* loops.
C5_Witness ==
    /\ Len(workers) = 2
    /\ workers[1].pc = "body" /\ workers[1].cancelled
    /\ workers[2].pc = "body" /\ ~workers[2].cancelled

\* C10. Where os.listdrives cannot enumerate the roots, the mounted drive
\* widget has an empty list and on_mount raised nothing.
C10_NoDrivesIsEmptyList ==
    (drive_mounted /\ platform.listdrives /= "ok")
    => (drive_options = << >> /\ ~drive_raised)

\* C2. Idempotence of setLocation: on the mounted widget, the setter given a
\* location that resolves to the current one starts no scan, cancels none,
\* posts no Changed message, and leaves the location, the entry cache, the
\* displayed list and the highlight as they are.
C2_SetSameLocationIsNoOp ==
    [][ \A path \in SetterInputs :
            (_mounted /\ Resolve(path) = _location /\ SetLocation(path))
            => UNCHANGED <<_location, workers, changed, _entries, options,
                           highlighted>> ]_vars

\* C2's case: a scan of the current location is in flight and the setter
\* can be given that location written another way; the call, changing
\* nothing, leaves the widget in this very state.
C2_Witness ==
    /\ _mounted
    /\ workers /= << >>
    /\ workers[Len(workers)].pc = "body"
    /\ ~workers[Len(workers)].cancelled
    /\ \E path \in SetterInputs :
          path /= _location /\ Resolve(path) = _location

\* A step of the UI thread that assigns one of the two display flags a new
\* value.
FlagStep ==
    \/ toggle_hidden
    \/ \E value \in BOOLEAN : value /= sort_display /\ SetSortDisplay(value)

\* The real rows are the cached entries that the hidden-entry flag lets
\* through, each as often as the cache holds it, and nothing else.
ShowsCache(rows, cache, showHidden) ==
    \A row \in {cache[i] : i \in DOMAIN cache}
               \cup {RealRows(rows)[i] : i \in DOMAIN RealRows(rows)} :
        Count(RealRows(rows), row) =
            IF DotName(row) /\ ~showHidden THEN 0 ELSE Count(cache, row)

ProjectionStep ==
    /\ CanRepopulate(_location)
    /\ \/ InitReactives
       \/ FlagStep
       \/ \E w \in DOMAIN workers : CallFromThread(w)

\* The parent row is there exactly off the root, once, as the first row, and
\* it leads to the parent of the location.
ParentRowRule(rows, loc) ==
    /\ Cardinality({i \in DOMAIN rows : rows[i].label = DotDot}) =
           IF loc = << >> THEN 0 ELSE 1
    /\ loc /= << >> =>
           /\ rows[1].label = DotDot
           /\ rows[1].location = SubSeq(loc, 1, Len(loc) - 1)

C7_HiddenEntryRule ==
    [][ ProjectionStep => ShowsCache(options', _entries', show_hidden') ]_vars

\* C7's case: show_hidden is on and a cached dot entry is displayed beside a
\* cached plain one.
C7_Witness ==
    /\ show_hidden
    /\ \E i, j \in DOMAIN options :
          /\ options[i].label /= DotDot /\ DotName(options[i])
          /\ options[j].label /= DotDot /\ ~DotName(options[j])
          /\ Count(_entries, options[i]) > 0
          /\ Count(_entries, options[j]) > 0

\* The name the sort rule compares.
RowName(row) == row.location[Len(row.location)]

\* C8. Sort rule: after every projection with sort_display on, the real rows
\* are in non-decreasing case-sensitive order of their names; with it off
\* they are the displayed cache entries in the cache's order.
C8_SortRule ==
    [][ ProjectionStep =>
            LET real == RealRows(options')
            IN  IF sort_display'
                THEN \A i, j \in DOMAIN real :
                        i < j => ~StrLess(RowName(real[j]), RowName(real[i]))
                ELSE real = SelectSeq(_entries',
                        LAMBDA e : ~(DotName(e) /\ ~show_hidden')) ]_vars

\* C8's case: sort_display is on and the displayed order of two real rows is
\* not the cache's order (an upper-case name before a lower-case one).
C8_Witness ==
    /\ sort_display
    /\ Len(_entries) = 2
    /\ Len(RealRows(options)) = 2
    /\ RealRows(options)[1] = _entries[2]
    /\ RealRows(options)[2] = _entries[1]

\* C9. Highlight invariant: after every projection that displays a
\* non-empty list, one row is highlighted, at a valid index: index 0, the
\* list having been cleared of its highlight before it was filled.
C9_HighlightSettled ==
    [][ (ProjectionStep /\ options' /= << >>) =>
            /\ highlighted' \in 0 .. Len(options') - 1
            /\ highlighted' = 0 ]_vars

\* C9's case: a list of several rows is on display, its first row
\* highlighted.
C9_Witness ==
    /\ Len(options) >= 2
    /\ highlighted = 0

\* C11. Single-writer cache: the entry cache changes only in a step of the
\* UI thread that runs a scan's hand-off; no step of a worker's thread
\* clears it or appends to it.
C11_CacheWrittenOnlyAtHandoff ==
    [][ _entries' /= _entries =>
            \E w \in DOMAIN workers : CallFromThread(w) ]_vars

\* C12. A cancelled scan has no effect: a worker that has been cancelled
\* hands no display update to the UI thread and appends nothing to the
\* entry cache.
C12_CancelledScanHasNoEffect ==
    [][ \A w \in DOMAIN workers :
            workers[w].cancelled =>
                /\ ~CallFromThread(w)
                /\ WorkerBody(w) => UNCHANGED _entries ]_vars

\* C13. No stale listing: every real row that the display update handed off
\* by a scan displays is an entry of the current location, that is, a path
\* directly below it.
C13_NoStaleListing ==
    [][ \A w \in DOMAIN workers :
            (CallFromThread(w) /\ CanRepopulate(_location)) =>
                \A i \in DOMAIN RealRows(options') :
                    /\ RealRows(options')[i].location /= << >>
                    /\ Parent(RealRows(options')[i].location) = _location' ]_vars

\* C14. Per-entry failures are absorbed: the loop's step for one child, in a
\* scan that is not cancelled and whose location has not changed, never ends
\* the scan; whatever the child's metadata does, the loop goes on to its
\* check.
C14_EntryFailureAbsorbed ==
    [][ \A w \in DOMAIN workers :
            ( /\ WorkerBody(w)
              /\ ~workers[w].cancelled
              /\ workers[w].dir = _location )
            => workers'[w].pc = "check" ]_vars

\* Worker w's step reads self._location: line 196, or line 198 for a child
\* that is a directory.
ReadsLocation(w) ==
    \/ WorkerIterdir(w)
    \/ /\ WorkerBody(w)
       /\ IsDir(Append(workers[w].dir, Head(workers[w].todo)))

\* C15. A worker reads only the location it was started for: the worker
\* the latest change of location superseded was started for the location
\* held before that change, which is not the current one, so it reads
\* self._location no more.
C15_WorkerReadsOwnLocation ==
    [][ \A w \in DOMAIN workers :
            ReadsLocation(w) => w /= Len(workers) - 1 ]_vars

\* The widget has come to rest on its location: no worker is running, the
\* entry cache is the listing of the location's subdirectories, and the
\* displayed list is the projection of that cache under the flags.
Settled ==
    /\ AllStopped
    /\ _entries = SubdirectoryListing(_location)
    /\ CanRepopulate(_location)
    /\ options = Rows(_entries, _location, show_hidden, sort_display)

\* The newest worker is at the given pc.
NewestIs(pc) ==
    IF workers = << >> THEN FALSE ELSE workers[Len(workers)].pc = pc

\* C16. Eventual display: once the n-th scan has been started on the mounted
\* widget, for a location that is a directory, then, unless the location is
\* changed again (which starts scan n + 1) or that scan fails, the widget
\* comes to rest with the location's listing cached and displayed.
C16_EventualDisplay ==
    \A n \in 1 .. MaxScans :
        (Len(workers) = n /\ NewestIs("start") /\ IsDir(_location))
        ~> (Len(workers) /= n \/ NewestIs("failed") \/ Settled)

\* C17. Never stuck in Scanning: every worker that is started comes to a
\* stop (completed, returned on cancellation, or failed); and the step in
\* which an enumeration fails ends that worker, starts no other, leaves the
\* location as requested and, when it was the newest scan, leaves no scan
\* that is still entitled to run.
C17_NeverStuckInScanning ==
    /\ \A w \in 1 .. MaxScans :
            (w \in DOMAIN workers)
            ~> (w \in DOMAIN workers /\ workers[w].pc \in Stopped)
    /\ [][ \A w \in DOMAIN workers :
              (WorkerIterdir(w) /\ ~IsDir(_location)) =>
                  /\ workers'[w].pc = "failed"
                  /\ Len(workers') = Len(workers)
                  /\ \A v \in DOMAIN workers \ {w} : workers'[v] = workers[v]
                  /\ UNCHANGED <<_location, changed>>
                  /\ w = Len(workers) =>
                        \A v \in DOMAIN workers :
                            workers'[v].pc \in Stopped \/ workers'[v].cancelled
       ]_vars

\* C17's case: the scan of a location that is no directory has failed after
\* the scan it superseded returned on its cancellation; nothing is running
\* and the location is still the one requested.
C17_Witness ==
    /\ Len(workers) = 2
    /\ workers[1].pc = "returned" /\ workers[1].cancelled
    /\ workers[2].pc = "failed"
    /\ _location = Missing
    /\ changed = 2

\* C18. Mount loads the initial location: before mount the setter starts no
\* scan and posts no message; on_mount makes the location assigned last the
\* current one, posts one Changed message and starts one scan of it.
C18_MountLoadsInitialLocation ==
    [][ /\ \A path \in SetterInputs :
              (~_mounted /\ SetLocation(path)) =>
                  UNCHANGED <<_location, workers, changed>>
        /\ on_mount =>
              /\ _location' = _initial_location
              /\ changed' = changed + 1
              /\ Len(workers') = Len(workers) + 1
              /\ workers'[Len(workers')].pc = "start" ]_vars

\* C19. Cached entries are children of the scanned directory: the entry a
\* worker appends for a child is the path of that child, the directory the
\* worker enumerated joined with the child's name.
C19_EntriesAreChildrenOfScanned ==
    [][ \A w \in DOMAIN workers :
            (WorkerBody(w) /\ _entries' /= _entries) =>
                _entries'[Len(_entries')].location =
                    Append(workers[w].dir, Head(workers[w].todo)) ]_vars

\* A location that a selection at loc may lead to by the rule of relative
\* navigation: the parent of loc, or a directory directly below loc.
RelativeTo(new, loc) ==
    \/ new = Parent(loc)
    \/ new /= << >> /\ Parent(new) = loc /\ IsDir(new)

\* Every scan before the newest ran to its hand-off without being cancelled:
\* no two scans ever ran side by side.
OlderUndisturbed ==
    \A w \in 1 .. Len(workers) - 1 :
        workers[w].pc = "done" /\ ~workers[w].cancelled

Undisturbed ==
    \A w \in DOMAIN workers : workers[w].pc = "done" /\ ~workers[w].cancelled

====
